---- MODULE Spec2Model ----
(***************************************************************************)
(* A model of go-ceph-blockdevice (gcb.go, test/main.go): the Connection,  *)
(* Image and Device operations of the library, the pool and the host they  *)
(* act on, and the provisioning flow of the example program.               *)
(*                                                                         *)
(* Every operation of the library is one action: the whole handler, with   *)
(* the outcome of each remote call and host command it makes drawn from    *)
(* the outcomes the pool and the host can produce.  The handlers are       *)
(* operators on a "world" record (the pool, the host, the log of the calls *)
(* made), so that a handler that calls another is the composition of the   *)
(* two operators, as in the code.                                          *)
(***************************************************************************)
EXTENDS Integers, Sequences, FiniteSets, TLC

\* ---------------------------------------------------------------- constants

DefaultPoolName == "rbd"
DefaultFileSystemType == "xfs"

\* ------------------------------------------------------------------- bounds

\* The host offers the device paths /dev/rbd0 .. /dev/rbd<MaxDevs-1>.
MaxDevs == 2
\* Frames of Shutdown the goroutine's stack holds before it overflows.
MaxStack == 3

Names == {"foobaritic", "other"}
Sizes == {1, 25}
FsTypes == {"ext4", "xfs"}
FsOnDisk == FsTypes \cup {""}
MountPoints == {"/mnt/foo", "/mnt/bar"}
DevTable == <<"/dev/rbd0", "/dev/rbd1", "/dev/rbd2", "/dev/rbd3">>
DevPath(i) == DevTable[i + 1]
Devs == {DevPath(i) : i \in 0 .. (MaxDevs - 1)}

NoImage == -1
NoConn == [open |-> FALSE, context |-> FALSE, pool |-> "", username |-> "", cluster |-> ""]
NoHandle == [name |-> "", size |-> 0, pool |-> "", username |-> ""]
NoDevice == [path |-> "", isMounted |-> FALSE, fileSystemType |-> "", mountPoint |-> ""]
NoRet == [op |-> "", err |-> "", a |-> "", b |-> "", n |-> 0, out |-> ""]
Ret(op, err, a, b, n, out) == [op |-> op, err |-> err, a |-> a, b |-> b, n |-> n, out |-> out]

Usernames == {"", "lxd"}
Pools == {"", "lxd"}
Clusters == {"", "ceph"}
ConfigFiles == {"", "./ceph.conf"}

VARIABLES
    remote,    \* the pool: image name -> capacity in bytes, NoImage when absent
    diskFs,    \* image name -> the filesystem type its blocks carry ("" = none)
    hostMaps,  \* the rows of `rbd showmapped`: {[pool, image, dev]}
    mounts,    \* the host's mount table: device path -> mount points, oldest first
    conn,      \* the caller's *Connection (NoConn = nil)
    image,     \* the caller's *Image (NoHandle = nil)
    device,    \* the caller's *Device (NoDevice = nil)
    calls,     \* the remote calls and host commands issued, in order
    held,      \* what the latest operation opened on the cluster and did not close
    ret,       \* what the latest operation was given and returned
    goc,       \* the latest GetOrCreateImage calls, at most two, oldest first
    stages,    \* the stages main() has invoked, with the error each reported
    shut,      \* the progress of Connection.Shutdown
    pc,        \* the position of main(); "lib" when the library is driven directly
    stdout,    \* what `rbd showmapped` writes, as characters, under ParseSpec
    parsed,    \* what GetMappedDevices made of stdout
    sizeArg,   \* the size GetOrCreateImage is given, as a 64 bit word, under SizeSpec
    capacity   \* the capacity it passes to rbd.Create, <<>> before the call

vars == <<remote, diskFs, hostMaps, mounts, conn, image, device, calls, held, ret, goc, stages, shut, pc,
          stdout, parsed, sizeArg, capacity>>

\* The variables of ParseSpec and SizeSpec, which the flows leave alone.
pureVars == <<stdout, parsed, sizeArg, capacity>>

\* ---------------------------------------------------------------- the world

Call(cmd, ok, a, b) == [cmd |-> cmd, ok |-> ok, a |-> a, b |-> b]

Log(w, c) == [w EXCEPT !.calls = Append(@, c)]

\* Nothing held: no rados connection ("created" once the handle exists,
\* "connected" once Connect returned nil), no IO context, no open image.
NoneHeld == [conn |-> "", context |-> FALSE, images |-> {}]

\* The world an operation starts in; log is the call log it appends to.
World(log) ==
    [remote |-> remote, disk |-> diskFs, maps |-> hostMaps, mounts |-> mounts,
     calls |-> log, held |-> NoneHeld]

IsMapped(w, dev) == \E r \in w.maps : r.dev = dev

ImageOf(w, dev) == (CHOOSE r \in w.maps : r.dev = dev).image

FreeDevs(w) == {i \in 0 .. (MaxDevs - 1) : ~IsMapped(w, DevPath(i))}

LowestFree(w) == CHOOSE i \in FreeDevs(w) : \A j \in FreeDevs(w) : i <= j

\* ------------------------------------------------------------ host commands
\* Each is RunCommand at one call site: [w, out, err].  ok is whether the
\* command exits zero when the host lets it.

\* rbd map --id <user> --pool <pool> <image>: stdout is the assigned path.
RbdMap(w, pool, name, ok) ==
    IF ok /\ w.remote[name] # NoImage /\ FreeDevs(w) # {}
    THEN LET dev == DevPath(LowestFree(w))
         IN  [w   |-> Log([w EXCEPT !.maps = @ \cup {[pool |-> pool, image |-> name, dev |-> dev]}],
                          Call("map", TRUE, name, dev)),
              out |-> dev, err |-> FALSE]
    ELSE [w |-> Log(w, Call("map", FALSE, name, "")), out |-> "", err |-> TRUE]

\* mkfs.<type> <path>: refuses a path that is no device or is mounted.
Mkfs(w, type, path, ok) ==
    LET can  == ok /\ IsMapped(w, path) /\ w.mounts[path] = <<>>
        had  == IF IsMapped(w, path) THEN w.disk[ImageOf(w, path)] ELSE ""
    IN  IF can
        THEN [w   |-> Log([w EXCEPT !.disk[ImageOf(w, path)] = type],
                          Call("mkfs", TRUE, type, had)),
              out |-> "", err |-> FALSE]
        ELSE [w |-> Log(w, Call("mkfs", FALSE, type, had)), out |-> "", err |-> TRUE]

\* blkid -o value -s TYPE <path>: stdout is the type on the disk.
Blkid(w, path, ok) ==
    IF ok /\ IsMapped(w, path) /\ w.disk[ImageOf(w, path)] # ""
    THEN LET t == w.disk[ImageOf(w, path)]
         IN  [w |-> Log(w, Call("blkid", TRUE, path, t)), out |-> t, err |-> FALSE]
    ELSE [w |-> Log(w, Call("blkid", FALSE, path, "")), out |-> "", err |-> TRUE]

InSeq(s, x) == \E i \in 1 .. Len(s) : s[i] = x

\* mount -t <type> <path> <mountPoint>: refuses a path already mounted there.
HostMount(w, type, path, mountPoint, ok) ==
    IF ok /\ IsMapped(w, path) /\ ~InSeq(w.mounts[path], mountPoint)
    THEN [w   |-> Log([w EXCEPT !.mounts[path] = Append(@, mountPoint)],
                      Call("mount", TRUE, path, mountPoint)),
          out |-> "", err |-> FALSE]
    ELSE [w |-> Log(w, Call("mount", FALSE, path, mountPoint)), out |-> "", err |-> TRUE]

\* unmount <path>: detaches the latest mount of the device.
HostUnmount(w, path, ok) ==
    IF ok /\ path \in DOMAIN w.mounts /\ w.mounts[path] # <<>>
    THEN [w   |-> Log([w EXCEPT !.mounts[path] = SubSeq(@, 1, Len(@) - 1)],
                      Call("unmount", TRUE, path, "")),
          out |-> "", err |-> FALSE]
    ELSE [w |-> Log(w, Call("unmount", FALSE, path, "")), out |-> "", err |-> TRUE]

\* rbd unmap <path>: refuses a device that is in use.
RbdUnmap(w, path, ok) ==
    IF ok /\ IsMapped(w, path) /\ w.mounts[path] = <<>>
    THEN [w   |-> Log([w EXCEPT !.maps = {r \in @ : r.dev # path}],
                      Call("unmap", TRUE, path, "")),
          out |-> "", err |-> FALSE]
    ELSE [w |-> Log(w, Call("unmap", FALSE, path, "")), out |-> "", err |-> TRUE]

\* rbd showmapped: the rows, by id.
ShowMapped(w, ok) ==
    IF ok
    THEN [w |-> Log(w, Call("showmapped", TRUE, "", "")), out |-> w.maps, err |-> FALSE]
    ELSE [w |-> Log(w, Call("showmapped", FALSE, "", "")), out |-> {}, err |-> TRUE]

\* ------------------------------------------------------------------- Device

\* GetFileSystemType: the probe's output, "" when the probe fails.
GetFileSystemType(w, d, blkid) ==
    LET r == Blkid(w, d.path, blkid)
    IN  IF r.err THEN [w |-> r.w, format |-> "", err |-> TRUE]
        ELSE [w |-> r.w, format |-> r.out, err |-> FALSE]

IsAlreadyFormatted(w, d, blkid) ==
    LET r == GetFileSystemType(w, d, blkid)
    IN  [w |-> r.w, val |-> (r.format = d.fileSystemType)]

\* Format: exec.LookPath("mkfs." + type), then the utility on the path.
Format(w, d, lookPath, mkfs) ==
    LET l == Log(w, Call("lookpath", lookPath, d.fileSystemType, ""))
    IN  IF ~lookPath THEN [w |-> l, err |-> TRUE]
        ELSE LET r == Mkfs(l, d.fileSystemType, d.path, mkfs)
             IN  [w |-> r.w, err |-> r.err]

\* Mount: [w, d, out, err]; err is "" for nil.
Mount(w, d, mountPoint, e) ==
    IF d.isMounted /\ d.mountPoint = mountPoint
    THEN [w |-> w, d |-> d, out |-> "", err |-> "AlreadyMounted"]
    ELSE LET f == IsAlreadyFormatted(w, d, e.blkid)
             g == IF ~f.val THEN Format(f.w, d, e.lookPath, e.mkfs)
                  ELSE [w |-> f.w, err |-> FALSE]
         IN  IF g.err THEN [w |-> g.w, d |-> d, out |-> "", err |-> "format"]
             ELSE LET m == HostMount(g.w, d.fileSystemType, d.path, mountPoint, e.mount)
                  IN  IF m.err THEN [w |-> m.w, d |-> d, out |-> "", err |-> "mount"]
                      ELSE [w |-> m.w, d |-> [d EXCEPT !.isMounted = TRUE],
                            out |-> mountPoint, err |-> ""]

UnMount(w, d, unmount) ==
    LET r == HostUnmount(w, d.path, unmount)
    IN  [w |-> r.w, err |-> IF r.err THEN "unmount" ELSE ""]

\* UnMap that goes on to the unmap when the unmount failed.
UnMap_unmapsAfterFailedUnmount(w, d, e) ==
    LET u == IF d.isMounted THEN UnMount(w, d, e.unmount) ELSE [w |-> w, err |-> ""]
        r == RbdUnmap(u.w, d.path, e.unmap)
    IN  [w |-> r.w, err |-> IF r.err THEN "unmap" ELSE u.err]

UnMap(w, d, e) ==
    LET u == IF d.isMounted THEN UnMount(w, d, e.unmount) ELSE [w |-> w, err |-> ""]
    IN  IF u.err # "" THEN [w |-> u.w, err |-> u.err]
        ELSE LET r == RbdUnmap(u.w, d.path, e.unmap)
             IN  [w |-> r.w, err |-> IF r.err THEN "unmap" ELSE ""]

\* NewDevice that drops the type it is given, as NewDevice of ceph.go does.
NewDevice_defaultType(w, img, fsType, mountPoint, e) ==
    LET r == RbdMap(w, img.pool, img.name, e.map)
    IN  IF r.err THEN [w |-> r.w, d |-> NoDevice, err |-> "map"]
        ELSE LET nd == [path |-> r.out, isMounted |-> FALSE,
                        fileSystemType |-> DefaultFileSystemType,
                        mountPoint |-> mountPoint]
                 f  == Format(r.w, nd, e.lookPath, e.mkfs0)
             IN  IF f.err THEN [w |-> f.w, d |-> NoDevice, err |-> "format"]
                 ELSE IF mountPoint # ""
                      THEN LET m == Mount(f.w, nd, mountPoint, e)
                           IN  IF m.err # "" THEN [w |-> m.w, d |-> NoDevice, err |-> m.err]
                               ELSE [w |-> m.w, d |-> [m.d EXCEPT !.isMounted = TRUE],
                                     err |-> ""]
                      ELSE [w |-> f.w, d |-> nd, err |-> ""]

\* NewDevice: [w, d, err]; d is NoDevice (nil) when err is not "".
NewDevice(w, img, fsType, mountPoint, e) ==
    LET r == RbdMap(w, img.pool, img.name, e.map)
    IN  IF r.err THEN [w |-> r.w, d |-> NoDevice, err |-> "map"]
        ELSE LET type == IF fsType = "" THEN DefaultFileSystemType ELSE fsType
                 nd   == [path |-> r.out, isMounted |-> FALSE,
                          fileSystemType |-> type, mountPoint |-> mountPoint]
                 f    == Format(r.w, nd, e.lookPath, e.mkfs0)
             IN  IF f.err THEN [w |-> f.w, d |-> NoDevice, err |-> "format"]
                 ELSE IF mountPoint # ""
                      THEN LET m == Mount(f.w, nd, mountPoint, e)
                           IN  IF m.err # "" THEN [w |-> m.w, d |-> NoDevice, err |-> m.err]
                               ELSE [w |-> m.w, d |-> [m.d EXCEPT !.isMounted = TRUE],
                                     err |-> ""]
                      ELSE [w |-> f.w, d |-> nd, err |-> ""]

\* -------------------------------------------------------------------- Image

MapToDevice(w, img, fsType, mountPoint, e) ==
    NewDevice(w, img, fsType, mountPoint, e)

\* ------------------------------------------------- the text of showmapped
\* A text is a sequence of characters, each a string of length one.

Digits == {"0", "1", "2", "3", "4", "5", "6", "7", "8", "9"}

\* The characters of the class ['\/dev\/rbd'] of the row pattern.
RowClass == {"'", "/", "d", "e", "v", "r", "b"}

\* strings.Trim(s, cutset)
Trim(s, cutset) ==
    LET keep == {i \in 1 .. Len(s) : s[i] \notin cutset}
    IN  IF keep = {} THEN <<>>
        ELSE LET lo == CHOOSE i \in keep : \A j \in keep : i <= j
                 hi == CHOOSE i \in keep : \A j \in keep : j <= i
             IN  SubSeq(s, lo, hi)

\* strings.Split(s, sep) for a separator of one character: the pieces between
\* the separators, one more than there are separators.
Split(s, sep) ==
    LET at     == {i \in 1 .. Len(s) : s[i] = sep}
        n      == Cardinality(at)
        pos(k) == IF k = 0 THEN 0
                  ELSE IF k = n + 1 THEN Len(s) + 1
                  ELSE CHOOSE q \in at : Cardinality({x \in at : x < q}) = k - 1
    IN  [k \in 1 .. (n + 1) |-> SubSeq(s, pos(k - 1) + 1, pos(k) - 1)]

\* regexp.MatchString("[0-9]+.*['\\/dev\\/rbd']+", line): the pattern is not
\* anchored, so a line matches when a digit is followed, anywhere later, by a
\* character of the class.
MatchString(line) ==
    \E i, j \in 1 .. Len(line) : i < j /\ line[i] \in Digits /\ line[j] \in RowClass

NoDevices == [x \in {} |-> <<>>]

NoParse == [status |-> "idle", devices |-> NoDevices]

\* devices[key] = val
Put(devices, key, val) ==
    [x \in (DOMAIN devices) \cup {key} |-> IF x = key THEN val ELSE devices[x]]

\* The loop of GetMappedDevices over the lines from the k-th on.  The indexes 4
\* and 9 of Go are the 5th and the 10th field; on a line of fewer than ten
\* fields the index is out of range and the run panics.
RECURSIVE ParseLines(_, _, _)
ParseLines(lines, k, devices) ==
    IF k > Len(lines) THEN [status |-> "ok", devices |-> devices]
    ELSE IF ~MatchString(lines[k]) THEN ParseLines(lines, k + 1, devices)
    ELSE LET line == Split(lines[k], " ")
         IN  IF Len(line) < 10 THEN [status |-> "panic", devices |-> devices]
             ELSE ParseLines(lines, k + 1, Put(devices, line[5], line[10]))

\* GetMappedDevices on the text the command wrote: RunCommand trims it, the
\* loop splits it into lines.  ok is whether the command exits zero.
ParseShowMapped(output, ok) ==
    IF ~ok THEN [status |-> "error", devices |-> NoDevices]
    ELSE ParseLines(Split(Trim(output, {" ", "\n"}), "\n"), 1, NoDevices)

\* GetMappedDevices on the host's rows, for the flows: the table is taken to be
\* laid out as RowLine is, where ParseLines reads the image and the device.
\* GetMappedDevices: the rows as a map keyed by image name; a later row of the
\* same image name replaces an earlier one.  [w, devices, err].
GetMappedDevices(w, showmapped) ==
    LET r    == ShowMapped(w, showmapped)
        last(n) == CHOOSE x \in r.out : x.image = n /\
                       \A y \in r.out : y.image = n =>
                           \E i, j \in 0 .. (MaxDevs - 1) :
                               DevPath(i) = y.dev /\ DevPath(j) = x.dev /\ i <= j
    IN  [w |-> r.w, err |-> r.err,
         devices |-> [n \in {x.image : x \in r.out} |-> last(n).dev]]

\* IsAlreadyMapped: the path the image's name is mapped to, "" otherwise.
IsAlreadyMapped(w, img, showmapped) ==
    LET r == GetMappedDevices(w, showmapped)
    IN  IF r.err THEN [w |-> r.w, out |-> ""]
        ELSE IF img.name \in DOMAIN r.devices
             THEN [w |-> r.w, out |-> r.devices[img.name]]
             ELSE [w |-> r.w, out |-> ""]

\* ------------------------------------------------------------ remote calls
\* The rbd and rados calls: [w, out, err]; err is "" for nil.

\* image.Open: fails with ENOENT on a name the pool does not hold.
RbdOpen(w, name, ok) ==
    IF w.remote[name] = NoImage
    THEN [w |-> Log(w, Call("open", FALSE, name, "ENOENT")), out |-> 0, err |-> "ENOENT"]
    ELSE IF ok THEN [w   |-> Log([w EXCEPT !.held.images = @ \cup {name}],
                                 Call("open", TRUE, name, "")),
                     out |-> 0, err |-> ""]
         ELSE [w |-> Log(w, Call("open", FALSE, name, "EIO")), out |-> 0, err |-> "EIO"]

\* image.Stat: the descriptor, here the capacity.
RbdStat(w, name, ok) ==
    IF ok /\ w.remote[name] # NoImage
    THEN [w |-> Log(w, Call("stat", TRUE, name, "")), out |-> w.remote[name], err |-> ""]
    ELSE [w |-> Log(w, Call("stat", FALSE, name, "EIO")), out |-> 0, err |-> "EIO"]

\* rbd.Create: fails with EEXIST on a name the pool holds.
RbdCreate(w, name, bytes, ok) ==
    IF w.remote[name] # NoImage
    THEN [w |-> Log(w, Call("create", FALSE, name, "EEXIST")), out |-> 0, err |-> "EEXIST"]
    ELSE IF ok
         THEN [w   |-> Log([w EXCEPT !.remote[name] = bytes, !.disk[name] = ""],
                           Call("create", TRUE, name, "")),
               out |-> 0, err |-> ""]
         ELSE [w |-> Log(w, Call("create", FALSE, name, "EIO")), out |-> 0, err |-> "EIO"]

\* --------------------------------------------------------------- Connection

\* A uint64 is four limbs of sixteen bits, the least significant first.
Limb == 65536

ToU64(n) == <<n % Limb, n \div Limb, 0, 0>>

\* The value of a word whose upper limbs are zero.
FromU64(x) == x[1] + x[2] * Limb

\* x * k in the width of x, for k up to a limb: the carry out of the last limb
\* is dropped, as the multiplication of Go drops it.
RECURSIVE MulFrom(_, _, _, _)
MulFrom(x, k, i, carry) ==
    IF i > Len(x) THEN <<>>
    ELSE LET p == x[i] * k + carry
         IN  <<p % Limb>> \o MulFrom(x, k, i + 1, p \div Limb)

Mul(x, k) == MulFrom(x, k, 1, 0)

\* toMegs on the 64 bit word: size * 1024 * 1024, each product in 64 bits.
toMegsU64(size) == Mul(Mul(size, 1024), 1024)

\* toMegs on the sizes of the flows, whose capacities fit two limbs.
toMegs(size) == FromU64(toMegsU64(ToU64(size)))

\* NewImage that hands the image out without looking at what Stat returned.
NewImage_ignoresStat(w, c, name, open, stat) ==
    LET o == RbdOpen(w, name, open)
    IN  IF o.err # "" THEN [w |-> o.w, img |-> NoHandle, err |-> o.err]
        ELSE LET s == RbdStat(o.w, name, stat)
             IN  [w   |-> s.w,
                  img |-> [name |-> name, size |-> s.out, pool |-> c.pool,
                           username |-> c.username],
                  err |-> ""]

\* NewImage: [w, img, err]; img is NoHandle (nil) when err is not "".
NewImage(w, c, name, open, stat) ==
    LET o == RbdOpen(w, name, open)
    IN  IF o.err # "" THEN [w |-> o.w, img |-> NoHandle, err |-> o.err]
        ELSE LET s == RbdStat(o.w, name, stat)
             IN  IF s.err # "" THEN [w |-> s.w, img |-> NoHandle, err |-> "stat"]
                 ELSE [w   |-> s.w,
                       img |-> [name |-> name, size |-> s.out, pool |-> c.pool,
                                username |-> c.username],
                       err |-> ""]

\* GetImageByName: rbd.GetImage builds a descriptor and never returns nil.
GetImageByName(w, c, name, open, stat) ==
    NewImage(w, c, name, open, stat)

\* GetOrCreateImage that creates first and looks the image up when that fails.
GetOrCreateImage_createFirst(w, c, name, size, e) ==
    LET n == RbdCreate(w, name, toMegs(size), e.create)
    IN  IF n.err = "" THEN NewImage(n.w, c, name, e.open2, e.stat2)
        ELSE LET g == GetImageByName(n.w, c, name, e.open, e.stat)
             IN  IF g.img # NoHandle THEN [w |-> g.w, img |-> g.img, err |-> ""]
                 ELSE [w |-> g.w, img |-> NoHandle, err |-> "create"]

GetOrCreateImage(w, c, name, size, e) ==
    LET g == GetImageByName(w, c, name, e.open, e.stat)
    IN  IF g.img # NoHandle THEN [w |-> g.w, img |-> g.img, err |-> ""]
        ELSE LET n == RbdCreate(g.w, name, toMegs(size), e.create)
             IN  IF n.err # "" THEN [w |-> n.w, img |-> NoHandle, err |-> "create"]
                 ELSE NewImage(n.w, c, name, e.open2, e.stat2)

\* The choice that looks at the username first, so that a cluster name is
\* never used.
ConnMode_userFirst(username, cluster) ==
    IF username # "" THEN "NewConnWithUser"
    ELSE IF cluster # "" /\ username # "" THEN "NewConnWithClusterAndUser"
    ELSE "NewConn"

ConnMode(username, cluster) ==
    IF cluster # "" /\ username # "" THEN "NewConnWithClusterAndUser"
    ELSE IF username # "" THEN "NewConnWithUser"
    ELSE "NewConn"

ConfigMode(configFile) ==
    IF configFile # "" THEN "ReadConfigFile" ELSE "ReadDefaultConfigFile"

\* NewConnection: [w, c, err]; failAt is the step the cluster refuses, "" for none.
NewConnection(w, username, pool, cluster, configFile, failAt) ==
    LET l1 == Log(w, Call(ConnMode(username, cluster), failAt # "newconn", username, cluster))
        w1 == IF failAt # "newconn" THEN [l1 EXCEPT !.held.conn = "created"] ELSE l1
        w2 == Log(w1, Call(ConfigMode(configFile), failAt # "config", configFile, ""))
        l3 == Log(w2, Call("Connect", failAt # "connect", "", ""))
        w3 == IF failAt # "connect" THEN [l3 EXCEPT !.held.conn = "connected"] ELSE l3
        p  == IF pool = "" THEN DefaultPoolName ELSE pool
        l4 == Log(w3, Call("OpenIOContext", failAt # "ioctx", p, ""))
        w4 == IF failAt # "ioctx" THEN [l4 EXCEPT !.held.context = TRUE] ELSE l4
    IN  IF failAt = "newconn" THEN [w |-> w1, c |-> NoConn, err |-> "newconn"]
        ELSE IF failAt = "config" THEN [w |-> w2, c |-> NoConn, err |-> "config"]
        ELSE IF failAt = "connect" THEN [w |-> w3, c |-> NoConn, err |-> "connect"]
        ELSE IF failAt = "ioctx" THEN [w |-> w4, c |-> NoConn, err |-> "ioctx"]
        ELSE [w |-> w4,
              c |-> [open |-> TRUE, context |-> TRUE, pool |-> p,
                     username |-> username, cluster |-> cluster],
              err |-> ""]

\* One frame of Shutdown: the context is destroyed when it is not nil, and the
\* frame then calls c.Shutdown(), which is this method again: the method of
\* Connection hides the one promoted from the embedded rados.Conn.  Destroying
\* a context a second time is a use after free in the C library: ub is the
\* outcome, "continue" or "fault".  No frame returns, so the connection's own
\* Shutdown (closes) is never reached.
ShutdownFrame(c, s, ub) ==
    IF s.depth >= MaxStack THEN [s EXCEPT !.status = "overflow"]
    ELSE IF c.context /\ s.destroys >= 1 /\ ub = "fault"
         THEN [s EXCEPT !.status = "fault", !.depth = @ + 1, !.destroys = @ + 1]
         ELSE [s EXCEPT !.status = "running", !.depth = @ + 1,
                        !.destroys = IF c.context THEN @ + 1 ELSE @]

NoShut == [status |-> "idle", depth |-> 0, destroys |-> 0, closes |-> 0]

\* ------------------------------------------------------------------ actions

Apply(w) ==
    /\ remote' = w.remote
    /\ diskFs' = w.disk
    /\ hostMaps' = w.maps
    /\ mounts' = w.mounts
    /\ calls' = w.calls
    /\ held' = w.held

FsArgs == {"", "ext4"}
MountArgs == MountPoints \cup {""}

\* The outcomes of the host commands of one operation.  A command that is not
\* reached because an earlier one failed has no outcome: it is fixed to TRUE,
\* so that each run of the handler is drawn once.
MountEnv ==
    {e \in [blkid : BOOLEAN, lookPath : BOOLEAN, mkfs : BOOLEAN, mount : BOOLEAN] :
        /\ ~e.lookPath => e.mkfs /\ e.mount
        /\ ~e.mkfs => e.mount}

NewDeviceEnv ==
    {e \in [map : BOOLEAN, lookPath : BOOLEAN, mkfs0 : BOOLEAN,
            blkid : BOOLEAN, mkfs : BOOLEAN, mount : BOOLEAN] :
        /\ ~e.map => e.lookPath /\ e.mkfs0
        /\ ~e.lookPath => e.mkfs0
        /\ ~(e.map /\ e.lookPath /\ e.mkfs0) => e.blkid /\ e.mkfs /\ e.mount
        /\ ~e.mkfs => e.mount}

UnMapEnv ==
    {e \in [unmount : BOOLEAN, unmap : BOOLEAN] : ~e.unmount => e.unmap}

\* A caller of the library that holds an Image and no Device:
\* device, err := image.MapToDevice(fsType, mountPoint).
CallMapToDevice ==
    /\ pc = "lib"
    /\ image # NoHandle
    /\ device = NoDevice
    /\ \E fsType \in FsArgs, mountPoint \in MountArgs,
          e \in NewDeviceEnv :
          LET r == MapToDevice(World(<<>>), image, fsType, mountPoint, e)
          IN  /\ Apply(r.w)
              /\ device' = r.d
              /\ ret' = Ret("MapToDevice", r.err, fsType, mountPoint, 0, r.d.path)
    /\ UNCHANGED <<pureVars, conn, image, goc, stages, shut, pc>>

\* device.Mount(mountPoint)
CallMount ==
    /\ pc = "lib"
    /\ device # NoDevice
    /\ \E mountPoint \in MountPoints,
          e \in MountEnv :
          LET r == Mount(World(<<>>), device, mountPoint, e)
          IN  /\ Apply(r.w)
              /\ device' = r.d
              /\ ret' = Ret("Mount", r.err, mountPoint, "", 0, r.out)
    /\ UNCHANGED <<pureVars, conn, image, goc, stages, shut, pc>>

\* device.UnMount()
CallUnMount ==
    /\ pc = "lib"
    /\ device # NoDevice
    /\ \E unmount \in BOOLEAN :
          LET r == UnMount(World(<<>>), device, unmount)
          IN  /\ Apply(r.w)
              /\ ret' = Ret("UnMount", r.err, "", "", 0, "")
    /\ UNCHANGED <<pureVars, conn, image, device, goc, stages, shut, pc>>

\* device.UnMap(); the caller drops the Device once it is unmapped.
CallUnMap ==
    /\ pc = "lib"
    /\ device # NoDevice
    /\ \E e \in UnMapEnv :
          LET r == UnMap(World(<<>>), device, e)
          IN  /\ Apply(r.w)
              /\ device' = IF r.err = "" THEN NoDevice ELSE device
              /\ ret' = Ret("UnMap", r.err, IF device.isMounted THEN "mounted" ELSE "",
                            "", 0, "")
    /\ UNCHANGED <<pureVars, conn, image, goc, stages, shut, pc>>

\* image.IsAlreadyMapped()
CallIsAlreadyMapped ==
    /\ pc = "lib"
    /\ image # NoHandle
    /\ \E showmapped \in BOOLEAN :
          LET r == IsAlreadyMapped(World(<<>>), image, showmapped)
          IN  /\ Apply(r.w)
              /\ ret' = Ret("IsAlreadyMapped", "", image.name, "", 0, r.out)
    /\ UNCHANGED <<pureVars, conn, image, device, goc, stages, shut, pc>>

\* ------------------------------------------------- the library with a Device

LibConn ==
    [open |-> TRUE, context |-> TRUE, pool |-> "lxd", username |-> "lxd", cluster |-> ""]

\* A pool of the cluster other than the caller's.
ForeignPool == "backup"

\* The host as an earlier run may have left it: the image unmapped, or mapped
\* at the first device path and there mounted or not, or that path taken by
\* the image of the same name of another pool.
InitHost(n) ==
    /\ diskFs \in [Names -> FsOnDisk]
    /\ \A m \in Names : remote[m] = NoImage => diskFs[m] = ""
    /\ \/ /\ hostMaps = {}
          /\ mounts = [d \in Devs |-> <<>>]
       \/ /\ remote[n] # NoImage
          /\ hostMaps = {[pool |-> "lxd", image |-> n, dev |-> DevPath(0)]}
          /\ \E m \in {<<>>} \cup {<<p>> : p \in MountPoints} :
                /\ m # <<>> => diskFs[n] # ""
                /\ mounts = [d \in Devs |-> IF d = DevPath(0) THEN m ELSE <<>>]
       \/ /\ hostMaps = {[pool |-> ForeignPool, image |-> n, dev |-> DevPath(0)]}
          /\ mounts = [d \in Devs |-> <<>>]

Init ==
    /\ pc = "lib"
    /\ conn = LibConn
    /\ remote = [m \in Names |-> IF m = "foobaritic" THEN toMegs(25) ELSE NoImage]
    /\ image = [name |-> "foobaritic", size |-> toMegs(25), pool |-> "lxd", username |-> "lxd"]
    /\ InitHost("foobaritic")
    /\ device = NoDevice
    /\ calls = <<>>
    /\ held = NoneHeld
    /\ ret = NoRet
    /\ goc = <<>>
    /\ stages = <<>>
    /\ shut = NoShut
    /\ stdout = <<>>
    /\ parsed = NoParse
    /\ sizeArg = ToU64(0)
    /\ capacity = <<>>

Next ==
    \/ CallMapToDevice
    \/ CallMount
    \/ CallUnMount
    \/ CallUnMap
    \/ CallIsAlreadyMapped

Spec == Init /\ [][Next]_vars

\* ------------------------------------------- the library with a Connection

GocEnv ==
    {e \in [open : BOOLEAN, stat : BOOLEAN, create : BOOLEAN,
            open2 : BOOLEAN, stat2 : BOOLEAN] :
        /\ ~e.open => e.stat
        /\ ~e.create => e.open2 /\ e.stat2
        /\ ~e.open2 => e.stat2}

\* image, err := conn.GetImageByName(name)
CallGetImageByName ==
    /\ pc = "lib"
    /\ conn # NoConn
    /\ shut.status = "idle"
    /\ \E name \in Names, open \in BOOLEAN, stat \in BOOLEAN :
          /\ ~open => stat
          /\ LET r == GetImageByName(World(<<>>), conn, name, open, stat)
             IN  /\ Apply(r.w)
                 /\ image' = r.img
                 /\ ret' = Ret("GetImageByName", r.err, name, "", 0, r.img.name)
    /\ UNCHANGED <<pureVars, conn, device, goc, stages, shut, pc>>

LastTwo(s) == IF Len(s) > 2 THEN SubSeq(s, Len(s) - 1, Len(s)) ELSE s

\* image, err := conn.GetOrCreateImage(name, size)
CallGetOrCreateImage ==
    /\ pc = "lib"
    /\ conn # NoConn
    /\ shut.status = "idle"
    /\ \E name \in Names, size \in Sizes, e \in GocEnv :
          LET r == GetOrCreateImage(World(<<>>), conn, name, size, e)
          IN  /\ Apply(r.w)
              /\ image' = r.img
              /\ ret' = Ret("GetOrCreateImage", r.err, name, "", size, r.img.name)
              /\ goc' = LastTwo(Append(goc, [name |-> name, size |-> size, err |-> r.err,
                                             img |-> r.img, calls |-> r.w.calls]))
    /\ UNCHANGED <<pureVars, conn, device, stages, shut, pc>>

StoreInit ==
    /\ pc = "lib"
    /\ conn = LibConn
    /\ remote \in [Names -> {NoImage} \cup {toMegs(s) : s \in Sizes}]
    /\ image = NoHandle
    /\ diskFs = [m \in Names |-> ""]
    /\ hostMaps = {}
    /\ mounts = [d \in Devs |-> <<>>]
    /\ device = NoDevice
    /\ calls = <<>>
    /\ held = NoneHeld
    /\ ret = NoRet
    /\ goc = <<>>
    /\ stages = <<>>
    /\ shut = NoShut
    /\ stdout = <<>>
    /\ parsed = NoParse
    /\ sizeArg = ToU64(0)
    /\ capacity = <<>>

StoreNext ==
    \/ CallGetImageByName
    \/ CallGetOrCreateImage

StoreSpec == StoreInit /\ [][StoreNext]_vars

\* ------------------------------------------------- connecting and shutdown

FailPoints == {"", "newconn", "config", "connect", "ioctx"}

\* conn, err := NewConnection(username, pool, cluster, configFile)
CallNewConnection ==
    /\ pc = "lib"
    /\ shut.status = "idle"
    /\ \E username \in Usernames, pool \in Pools, cluster \in Clusters,
          configFile \in ConfigFiles, failAt \in FailPoints :
          LET r == NewConnection(World(<<>>), username, pool, cluster, configFile, failAt)
          IN  /\ Apply(r.w)
              /\ conn' = r.c
              /\ ret' = Ret("NewConnection", r.err, username, pool, 0, cluster)
    /\ UNCHANGED <<pureVars, image, device, goc, stages, shut, pc>>

\* conn.Shutdown(): the call, and each call the method makes of itself.
CallShutdown ==
    /\ pc = "lib"
    /\ conn # NoConn
    /\ shut.status \in {"idle", "running"}
    /\ \E ub \in {"continue", "fault"} :
          /\ shut.destroys = 0 => ub = "continue"
          /\ shut' = ShutdownFrame(conn, shut, ub)
    /\ ret' = Ret("Shutdown", "", "", "", 0, "")
    /\ UNCHANGED <<pureVars, remote, diskFs, hostMaps, mounts, conn, image, device, calls, held, goc,
                   stages, pc>>

ConnInit ==
    /\ pc = "lib"
    /\ conn = NoConn
    /\ remote = [m \in Names |-> NoImage]
    /\ image = NoHandle
    /\ diskFs = [m \in Names |-> ""]
    /\ hostMaps = {}
    /\ mounts = [d \in Devs |-> <<>>]
    /\ device = NoDevice
    /\ calls = <<>>
    /\ held = NoneHeld
    /\ ret = NoRet
    /\ goc = <<>>
    /\ stages = <<>>
    /\ shut = NoShut
    /\ stdout = <<>>
    /\ parsed = NoParse
    /\ sizeArg = ToU64(0)
    /\ capacity = <<>>

ConnNext ==
    \/ CallNewConnection
    \/ CallShutdown

ConnSpec == ConnInit /\ [][ConnNext]_vars

\* ------------------------------------------------------------------- main()
\* test/main.go: each call of the library is one step; the log of calls and
\* the stages run are kept for the whole run.

Stage(name, err, out) == [stage |-> name, err |-> err, out |-> out]

\* connection, err := blockdevice.NewConnection("lxd", "lxd", "", "./ceph.conf");
\* an error is printed and main goes on.
MainConnect ==
    /\ pc = "connect"
    /\ \E failAt \in FailPoints :
          LET r == NewConnection(World(calls), "lxd", "lxd", "", "./ceph.conf", failAt)
          IN  /\ Apply(r.w)
              /\ conn' = r.c
              /\ ret' = Ret("NewConnection", r.err, "lxd", "lxd", 0, "")
              /\ stages' = Append(stages, Stage("connect", r.err, ""))
    /\ pc' = "getorcreate"
    /\ UNCHANGED <<pureVars, image, device, goc, shut>>

\* image, err := connection.GetOrCreateImage("foobaritic", 25); an error is
\* printed and main goes on.  On a nil connection the method is entered and
\* panics where it reads c.context.
MainGetOrCreate ==
    /\ pc = "getorcreate"
    /\ IF conn = NoConn
       THEN /\ stages' = Append(stages, Stage("getorcreate", "panic", ""))
            /\ ret' = Ret("GetOrCreateImage", "panic", "foobaritic", "", 25, "")
            /\ pc' = "panic"
            /\ UNCHANGED <<remote, diskFs, hostMaps, mounts, calls, held, image>>
       ELSE /\ \E e \in GocEnv :
                  LET r == GetOrCreateImage(World(calls), conn, "foobaritic", 25, e)
                  IN  /\ Apply(r.w)
                      /\ image' = r.img
                      /\ ret' = Ret("GetOrCreateImage", r.err, "foobaritic", "", 25,
                                    r.img.name)
                      /\ stages' = Append(stages, Stage("getorcreate", r.err, r.img.name))
            /\ pc' = "discover"
    /\ UNCHANGED <<pureVars, conn, device, goc, shut>>

\* main() that maps whatever the discovery reports.
MainDiscover_mapsAnyway ==
    /\ pc = "discover"
    /\ image # NoHandle
    /\ \E showmapped \in BOOLEAN :
          LET r == IsAlreadyMapped(World(calls), image, showmapped)
          IN  /\ Apply(r.w)
              /\ ret' = Ret("IsAlreadyMapped", "", image.name, "", 0, r.out)
              /\ stages' = Append(stages, Stage("discover", "", r.out))
              /\ pc' = "map"
    /\ UNCHANGED <<pureVars, conn, image, device, goc, shut>>

\* if device := image.IsAlreadyMapped(); device != "" { print } else { map }.
\* On a nil image the method is entered and panics where it reaches the
\* embedded Connection.
MainDiscover ==
    /\ pc = "discover"
    /\ IF image = NoHandle
       THEN /\ stages' = Append(stages, Stage("discover", "panic", ""))
            /\ ret' = Ret("IsAlreadyMapped", "panic", "", "", 0, "")
            /\ pc' = "panic"
            /\ UNCHANGED <<remote, diskFs, hostMaps, mounts, calls, held>>
       ELSE \E showmapped \in BOOLEAN :
               LET r == IsAlreadyMapped(World(calls), image, showmapped)
               IN  /\ Apply(r.w)
                   /\ ret' = Ret("IsAlreadyMapped", "", image.name, "", 0, r.out)
                   /\ stages' = Append(stages, Stage("discover", "", r.out))
                   /\ pc' = IF r.out # "" THEN "done" ELSE "map"
    /\ UNCHANGED <<pureVars, conn, image, device, goc, shut>>

\* device, err := image.MapToDevice("ext4", "/mnt/foo"); the error or the
\* device's path and mount point are printed.
MainMap ==
    /\ pc = "map"
    /\ \E e \in NewDeviceEnv :
          LET r == MapToDevice(World(calls), image, "ext4", "/mnt/foo", e)
          IN  /\ Apply(r.w)
              /\ device' = r.d
              /\ ret' = Ret("MapToDevice", r.err, "ext4", "/mnt/foo", 0, r.d.path)
              /\ stages' = Append(stages, Stage("map", r.err, r.d.path))
    /\ pc' = "done"
    /\ UNCHANGED <<pureVars, conn, image, goc, shut>>

MainInit ==
    /\ pc = "connect"
    /\ conn = NoConn
    /\ image = NoHandle
    /\ device = NoDevice
    /\ remote \in [Names -> {NoImage} \cup {toMegs(s) : s \in Sizes}]
    /\ \E n \in Names : InitHost(n)
    /\ calls = <<>>
    /\ held = NoneHeld
    /\ ret = NoRet
    /\ goc = <<>>
    /\ stages = <<>>
    /\ shut = NoShut
    /\ stdout = <<>>
    /\ parsed = NoParse
    /\ sizeArg = ToU64(0)
    /\ capacity = <<>>

MainNext ==
    \/ MainConnect
    \/ MainGetOrCreate
    \/ MainDiscover
    \/ MainMap

MainSpec == MainInit /\ [][MainNext]_vars

\* --------------------------------------------------- parsing the discovery
\* The lines `rbd showmapped` is given to write here.

\* "id pool image snap device"
HeaderLine ==
    <<"i", "d", " ", "p", "o", "o", "l", " ", "i", "m", "a", "g", "e", " ", "s", "n", "a", "p", " ", "d", "e", "v", "i", "c", "e">>

\* "0  lxd  foo -    /dev/rbd0"
RowLine ==
    <<"0", " ", " ", "l", "x", "d", " ", " ", "f", "o", "o", " ", "-", " ", " ", " ", " ", "/", "d", "e", "v", "/", "r", "b", "d", "0">>

\* "1 lxd bar - /dev/rbd1"
SingleSpacedRow ==
    <<"1", " ", "l", "x", "d", " ", "b", "a", "r", " ", "-", " ", "/", "d", "e", "v", "/", "r", "b", "d", "1">>

\* "1  lxd  bar    -    /dev/rbd1"
PaddedRow ==
    <<"1", " ", " ", "l", "x", "d", " ", " ", "b", "a", "r", " ", " ", " ", " ", "-", " ", " ", " ", " ", "/", "d", "e", "v", "/", "r", "b", "d", "1">>

\* ""
BlankLine ==
    <<>>

\* "2 errors"
ShortNoise ==
    <<"2", " ", "e", "r", "r", "o", "r", "s">>

\* "warning"
PlainNoise ==
    <<"w", "a", "r", "n", "i", "n", "g">>

\* "1 a b c d e f g h i"
LongNoise ==
    <<"1", " ", "a", " ", "b", " ", "c", " ", "d", " ", "e", " ", "f", " ", "g", " ", "h", " ", "i">>

SampleLines ==
    {HeaderLine, RowLine, SingleSpacedRow, PaddedRow, BlankLine, ShortNoise,
     PlainNoise, LongNoise}

MaxLines == 2

\* The lines joined with line feeds, each line ended by one.
RECURSIVE Unlines(_)
Unlines(ls) ==
    IF ls = <<>> THEN <<>> ELSE Head(ls) \o <<"\n">> \o Unlines(Tail(ls))

Outputs ==
    {Unlines(ls) : ls \in UNION {[1 .. n -> SampleLines] : n \in 1 .. MaxLines}}

\* devices, err := conn.GetMappedDevices()
CallGetMappedDevices ==
    /\ pc = "lib"
    /\ parsed = NoParse
    /\ \E showmapped \in BOOLEAN :
          /\ parsed' = ParseShowMapped(stdout, showmapped)
          /\ ret' = Ret("GetMappedDevices", IF showmapped THEN "" ELSE "showmapped",
                        "", "", 0, "")
    /\ UNCHANGED <<remote, diskFs, hostMaps, mounts, conn, image, device, calls, held, goc,
                   stages, shut, pc, stdout, sizeArg, capacity>>

ParseInit ==
    /\ pc = "lib"
    /\ conn = LibConn
    /\ remote = [m \in Names |-> NoImage]
    /\ image = NoHandle
    /\ diskFs = [m \in Names |-> ""]
    /\ hostMaps = {}
    /\ mounts = [d \in Devs |-> <<>>]
    /\ device = NoDevice
    /\ calls = <<>>
    /\ held = NoneHeld
    /\ ret = NoRet
    /\ goc = <<>>
    /\ stages = <<>>
    /\ shut = NoShut
    /\ stdout \in Outputs
    /\ parsed = NoParse
    /\ sizeArg = ToU64(0)
    /\ capacity = <<>>

ParseNext ==
    \/ CallGetMappedDevices

ParseSpec == ParseInit /\ [][ParseNext]_vars

\* -------------------------------------------------- the capacity of a size
\* The limbs the sizes are built of: zero, one, the last value and the first
\* whose product leaves the word, and the largest.
LimbSamples == {0, 1, 4095, 4096, 65535}

SizeArgs == {<<a, b, c, d>> : a \in LimbSamples, b \in LimbSamples,
                              c \in LimbSamples, d \in LimbSamples}

\* The creation of GetOrCreateImage: rbd.Create(c.context, name, toMegs(size)).
CallCreateSized ==
    /\ pc = "lib"
    /\ capacity = <<>>
    /\ capacity' = toMegsU64(sizeArg)
    /\ ret' = Ret("toMegs", "", "", "", 0, "")
    /\ UNCHANGED <<remote, diskFs, hostMaps, mounts, conn, image, device, calls, held, goc,
                   stages, shut, pc, stdout, parsed, sizeArg>>

SizeInit ==
    /\ pc = "lib"
    /\ conn = LibConn
    /\ remote = [m \in Names |-> NoImage]
    /\ image = NoHandle
    /\ diskFs = [m \in Names |-> ""]
    /\ hostMaps = {}
    /\ mounts = [d \in Devs |-> <<>>]
    /\ device = NoDevice
    /\ calls = <<>>
    /\ held = NoneHeld
    /\ ret = NoRet
    /\ goc = <<>>
    /\ stages = <<>>
    /\ shut = NoShut
    /\ stdout = <<>>
    /\ parsed = NoParse
    /\ sizeArg \in SizeArgs
    /\ capacity = <<>>

SizeNext ==
    \/ CallCreateSized

SizeSpec == SizeInit /\ [][SizeNext]_vars

\* ------------------------------------------------------------------- claims

CallsOf(log, cmds) == {i \in 1 .. Len(log) : log[i].cmd \in cmds}

\* C1: the format utility is run on a device only when the type on its disk
\* differs from the device's declared type: no run of MapToDevice or Mount
\* issues mkfs against a device that already carries the declared type.
C1_NoFormatOfFormattedDevice ==
    \A i \in CallsOf(calls, {"mkfs"}) : calls[i].b # calls[i].a

\* C2: when GetOrCreateImage(name, size) is called twice with the same
\* arguments and returns a handle both times, the two handles are of the same
\* remote image, the second call issued no rbd.Create, and the two calls
\* together issued at most one.
C2_GetOrCreateTwice ==
    (/\ Len(goc) = 2
     /\ goc[1].name = goc[2].name
     /\ goc[1].size = goc[2].size
     /\ goc[1].err = ""
     /\ goc[2].err = "")
    => /\ goc[2].img = goc[1].img
       /\ goc[2].img.name = goc[1].name
       /\ CallsOf(goc[2].calls, {"create"}) = {}
       /\ Cardinality(CallsOf(goc[1].calls, {"create"})) <= 1

\* C2's case: the first call created the image, the second returned it.
C2_Witness ==
    /\ Len(goc) = 2
    /\ goc[1].name = goc[2].name
    /\ goc[1].size = goc[2].size
    /\ goc[1].err = ""
    /\ goc[2].err = ""
    /\ \E i \in CallsOf(goc[1].calls, {"create"}) : goc[1].calls[i].ok

\* C3: a Mount(p) that follows a successful Mount(p) on the same Device is
\* rejected as already mounted, issues no host command (no probe, no format,
\* no mount) and leaves the recorded mount point as it was.
C3_SecondMountRejected ==
    [][(/\ ret.op = "Mount"
        /\ ret.err = ""
        /\ ret'.op = "Mount"
        /\ ret'.a = ret.a)
       => (/\ ret'.err = "AlreadyMounted"
           /\ calls' = <<>>
           /\ mounts' = mounts
           /\ device'.mountPoint = device.mountPoint)]_vars

\* C4: UnMap of a Device recorded as mounted issues the unmount first; the
\* unmap is issued only after an unmount that succeeded, and when the unmount
\* fails nothing else is issued, UnMap returns the error and the Device stays
\* recorded as mounted.
C4_UnMapUnmountsFirst ==
    (ret.op = "UnMap" /\ ret.a = "mounted")
    => /\ Len(calls) >= 1
       /\ calls[1].cmd = "unmount"
       /\ \A i \in CallsOf(calls, {"unmap"}) : i > 1 /\ calls[1].ok
       /\ ~calls[1].ok => /\ Len(calls) = 1
                          /\ ret.err = "unmount"
                          /\ device.isMounted

\* C4's case: the device is attached and recorded as mounted, and the unmount
\* UnMap issued has failed.
C4_Witness ==
    /\ ret.op = "UnMap"
    /\ ret.a = "mounted"
    /\ calls # <<>>
    /\ ~calls[1].ok
    /\ device.isMounted
    /\ mounts[device.path] # <<>>

\* C5: after a successful Mount(p) the Device is recorded as mounted at p, and
\* a Device recorded as mounted always has a mount point recorded.
C5_MountRecordsMountPoint ==
    /\ (ret.op = "Mount" /\ ret.err = "")
          => (device.isMounted /\ device.mountPoint = ret.a)
    /\ (device # NoDevice /\ device.isMounted) => device.mountPoint # ""

\* C6: a Device recorded as mounted is attached on the host, at its recorded
\* mount point when it records one (the Device that records none is C5's), and
\* after a successful UnMount the Device is not recorded as mounted.
C6_MountedMeansAttached ==
    /\ (device # NoDevice /\ device.isMounted)
          => /\ mounts[device.path] # <<>>
             /\ device.mountPoint # "" => InSeq(mounts[device.path], device.mountPoint)
    /\ (ret.op = "UnMount" /\ ret.err = "") => ~device.isMounted

\* C7: Shutdown does not call itself, releases the context once and then the
\* connection once, and ends by returning.
C7_ShutdownReleasesOnce ==
    /\ shut.depth <= 1
    /\ shut.destroys <= 1
    /\ shut.status \notin {"overflow", "fault"}
    /\ shut.status = "returned" => (shut.destroys = 1 /\ shut.closes = 1)

\* C8: once the discovery of main() has reported the image as mapped to a
\* path, the run is over with that path as its result, and the run has issued
\* no host map, format or mount.
C8_AlreadyMappedShortCircuits ==
    \A i \in 1 .. Len(stages) :
        (stages[i].stage = "discover" /\ stages[i].out # "")
        => /\ pc = "done"
           /\ i = Len(stages)
           /\ ret.out = stages[i].out
           /\ CallsOf(calls, {"map", "mkfs", "mount"}) = {}

\* C8's case: the image was mapped at /dev/rbd0 and main() reported it.
C8_Witness ==
    /\ pc = "done"
    /\ stages # <<>>
    /\ stages[Len(stages)].stage = "discover"
    /\ stages[Len(stages)].out = DevPath(0)
    /\ \E r \in hostMaps : r.image = "foobaritic" /\ r.dev = DevPath(0)

\* C9: main() invokes no stage after a stage that failed.
C9_FailFast ==
    \A i, j \in 1 .. Len(stages) : i < j => stages[i].err = ""

IsProvisionCall(c) == c.cmd \in {"create", "map", "mkfs", "mount"}

\* The run found no image and no mapping and went on to MapToDevice, and every
\* call it made succeeded (the lookup of the absent image, which reports that
\* it is absent, aside).
FreshRunAllOk ==
    /\ pc = "done"
    /\ \E i \in 1 .. Len(calls) : calls[i].cmd = "create"
    /\ \E i \in 1 .. Len(stages) : stages[i].stage = "map"
    /\ \A i \in 1 .. Len(calls) :
          calls[i].ok \/ (calls[i].cmd = "open" /\ calls[i].b = "ENOENT")

\* C10: on the fresh path with every call succeeding, the run issues create,
\* map, format and mount once each and in that order, and ends with the Device
\* at the path map returned, mounted at /mnt/foo and typed ext4.
C10_FreshProvisioning ==
    FreshRunAllOk
    => LET s == SelectSeq(calls, IsProvisionCall)
       IN  /\ Len(s) = 4
           /\ s[1].cmd = "create"
           /\ s[2].cmd = "map"
           /\ s[3].cmd = "mkfs"
           /\ s[4].cmd = "mount"
           /\ device = [path |-> s[2].b, isMounted |-> TRUE,
                        fileSystemType |-> "ext4", mountPoint |-> "/mnt/foo"]
           /\ device.path # ""
           /\ ret.err = ""

\* C10's case: a fresh run that ended with the device attached at /mnt/foo.
C10_Witness ==
    /\ FreshRunAllOk
    /\ device # NoDevice
    /\ InSeq(mounts[device.path], "/mnt/foo")
    /\ diskFs["foobaritic"] = "ext4"
    /\ remote["foobaritic"] = toMegs(25)


\* The lookup of the latest GetOrCreateImage failed for a reason other than the
\* image being absent: the open was refused on an image the pool holds, or the
\* stat failed.
LookupFailedOtherwise ==
    /\ Len(calls) >= 1
    /\ \/ calls[1].cmd = "open" /\ ~calls[1].ok /\ calls[1].b # "ENOENT"
       \/ Len(calls) >= 2 /\ calls[2].cmd = "stat" /\ ~calls[2].ok

\* C11: GetOrCreateImage attempts the creation only when the lookup reported
\* that the image does not exist; a lookup that failed for any other reason is
\* the error returned, and no creation is attempted.
C11_CreateOnlyWhenNotFound ==
    (ret.op = "GetOrCreateImage" /\ LookupFailedOtherwise) =>
        /\ CallsOf(calls, {"create"}) = {}
        /\ ret.err \notin {"", "create"}


\* The host holds a mapping of the caller's image.
ImageIsMapped ==
    \E r \in hostMaps : r.image = image.name /\ r.pool = image.pool

\* C12: when the image is mapped on the host, IsAlreadyMapped returns a device
\* path, also when the discovery command fails, so main() never goes on to map
\* an image that is mapped already.
C12_MappedImageIsReported ==
    /\ (ret.op = "IsAlreadyMapped" /\ ret.err = "" /\ ImageIsMapped) => ret.out # ""
    /\ (pc = "map" /\ image # NoHandle) => ~ImageIsMapped


\* C13: NewImage returns a handle only when the open and the stat both
\* succeeded; when either fails it returns the error and no handle.
C13_HandleOnlyAfterOpenAndStat ==
    ret.op \in {"GetImageByName", "GetOrCreateImage"} =>
        /\ ret.err # "" => image = NoHandle
        /\ image # NoHandle =>
              /\ ret.err = ""
              /\ Len(calls) >= 2
              /\ LET o == calls[Len(calls) - 1]
                     t == calls[Len(calls)]
                 IN  /\ o.cmd = "open" /\ o.ok /\ o.a = image.name
                     /\ t.cmd = "stat" /\ t.ok /\ t.a = image.name
              /\ image.size = remote[image.name]

\* The open succeeded, the stat failed, and no handle came back.
C13_Witness ==
    /\ ret.op = "GetImageByName"
    /\ Len(calls) = 2
    /\ calls[1].cmd = "open" /\ calls[1].ok
    /\ calls[2].cmd = "stat" /\ ~calls[2].ok
    /\ ret.err = "stat"
    /\ image = NoHandle


\* The fields of a line that are not empty: its columns.
Columns(line) == SelectSeq(Split(line, " "), LAMBDA f : f # <<>>)

DevicePrefix == <<"/", "d", "e", "v", "/", "r", "b", "d">>

\* A row of the table: id, pool, image, snap, device, the id digits only and
\* the device a path under /dev/rbd.
IsRow(line) ==
    LET c == Columns(line)
    IN  /\ Len(c) = 5
        /\ \A i \in 1 .. Len(c[1]) : c[1][i] \in Digits
        /\ Len(c[5]) > Len(DevicePrefix)
        /\ SubSeq(c[5], 1, Len(DevicePrefix)) = DevicePrefix

\* The rows of a text, as image name -> device path, a later row first.
RowsOf(output) ==
    LET lines == Split(output, "\n")
        rows  == {k \in 1 .. Len(lines) : IsRow(lines[k])}
        last(n) == CHOOSE k \in rows : Columns(lines[k])[3] = n /\
                       \A j \in rows : Columns(lines[j])[3] = n => j <= k
    IN  [n \in {Columns(lines[k])[3] : k \in rows} |-> Columns(lines[last(n)])[5]]

\* C14: whatever lines showmapped writes, GetMappedDevices completes, and the
\* mapping it returns holds the rows of the table and nothing else, each under
\* its image name with its device path; other lines are skipped.
C14_ParseKeepsExactlyTheRows ==
    (ret.op = "GetMappedDevices" /\ ret.err = "") =>
        /\ parsed.status = "ok"
        /\ parsed.devices = RowsOf(stdout)


\* C15: NewConnection creates the handle in the mode of the most specific
\* credentials given (cluster and username, username, neither), reads the
\* configuration file given or else the default one, connects, and opens the
\* pool, the default pool when none is named; the first step that fails ends
\* the sequence, and an error and no Connection are returned.
C15_ConnectSequence ==
    ret.op = "NewConnection" =>
        LET username == ret.a
            pool     == ret.b
            cluster  == ret.out
            n        == Len(calls)
        IN  /\ n \in 1 .. 4
            /\ calls[1].cmd = IF cluster # "" /\ username # ""
                              THEN "NewConnWithClusterAndUser"
                              ELSE IF username # "" THEN "NewConnWithUser" ELSE "NewConn"
            /\ n >= 2 => calls[2].cmd = IF calls[2].a # "" THEN "ReadConfigFile"
                                        ELSE "ReadDefaultConfigFile"
            /\ n >= 3 => calls[3].cmd = "Connect"
            /\ n >= 4 => /\ calls[4].cmd = "OpenIOContext"
                         /\ calls[4].a = IF pool = "" THEN "rbd" ELSE pool
            /\ \A i \in 1 .. (n - 1) : calls[i].ok
            /\ ret.err = "" <=> (n = 4 /\ calls[4].ok)
            /\ ret.err # "" => conn = NoConn /\ ~calls[n].ok
            /\ ret.err = "" => /\ conn # NoConn
                               /\ conn.pool = IF pool = "" THEN "rbd" ELSE pool

\* Cluster and username given, the configuration cannot be read: the sequence
\* stops there.
C15_Witness ==
    /\ ret.op = "NewConnection"
    /\ ret.err = "config"
    /\ Len(calls) = 2
    /\ calls[1].cmd = "NewConnWithClusterAndUser" /\ calls[1].ok
    /\ ~calls[2].ok
    /\ conn = NoConn


\* The word with two more limbs, wide enough for any size times 1024 * 1024.
Widen(x) == x \o <<0, 0>>

\* size * 1024 * 1024 as a number, nothing dropped.
ExactBytes(size) == Mul(Mul(Widen(size), 1024), 1024)

\* C16: for every 64 bit size, the capacity passed to the creation is
\* size * 1024 * 1024 exactly: the product does not wrap.
C16_CapacityIsExact ==
    capacity # <<>> => Widen(capacity) = ExactBytes(sizeArg)


\* C17: a path IsAlreadyMapped returns is the device of a host mapping of this
\* image: of the image of that name in the pool of its Connection, not of an
\* image of the same name of another pool.
C17_ReportedPathMapsThisImage ==
    (ret.op = "IsAlreadyMapped" /\ ret.err = "" /\ ret.out # "") =>
        \E r \in hostMaps :
            r.dev = ret.out /\ r.image = image.name /\ r.pool = image.pool


\* C18: when MapToDevice returns an error, the host holds no mapping that the
\* call created: a failure of the format or of the mount after the map does
\* not leave the image mapped with no Device returned.
C18_FailedMapLeavesNoMapping ==
    (ret.op = "MapToDevice" /\ ret.err # "") =>
        /\ device = NoDevice
        /\ \A i \in CallsOf(calls, {"map"}) :
              calls[i].ok => ~\E r \in hostMaps : r.dev = calls[i].b


\* C19: when NewConnection returns an error, no connection to the cluster and
\* no IO context that the call opened is left open; when NewImage returns an
\* error after it opened the image, the image is not left open.
C19_FailureReleasesWhatItOpened ==
    /\ (ret.op = "NewConnection" /\ ret.err # "") =>
          held.conn # "connected" /\ ~held.context
    /\ (ret.op \in {"GetImageByName", "GetOrCreateImage"} /\ ret.err \notin {"", "panic"}) =>
          held.images = {}

====
